---- MODULE Spec2Model ----
(***************************************************************************)
(* Model of the Privilee map-page end-to-end suite: the run configuration  *)
(* (playwright.config.ts) and the seven scenarios of the describe block    *)
(* "Privilee Map Page".                                                    *)
(*                                                                         *)
(* Spec      the run: loading, the job queue, workers, attempts, retries,  *)
(*           browser contexts, screenshots, traces and the exit code.      *)
(* SpecPerf, SpecNav, SpecFilter, SpecCore                                 *)
(*           one scenario each, step by step against a page whose          *)
(*           observable properties are drawn from small sets.              *)
(***************************************************************************)
EXTENDS Integers, Sequences, FiniteSets, TLC

VARIABLES
    ci,        \* process.env.CI is set
    onlySet,   \* scenarios declared with test.only (none in the source as written)
    phase,     \* "load", "run", "done"
    queue,     \* jobs waiting for a worker, head first
    st,        \* per scenario: "declared","queued","running","teardown","passed","failed","skipped"
    pc,        \* per scenario: index of the step the current attempt is at
    attempt,   \* per scenario: number of attempts started
    ctx,       \* per scenario: browser context of the current attempt
    failedAt,  \* per scenario: the attempts in which a step threw
    shots,     \* per scenario: the attempts for which a screenshot was captured
    traces,    \* per scenario: the attempts for which a trace was recorded
    exitCode,  \* -1 while running, then 0 or 1
    perf,      \* load-performance scenario and its page
    nav,       \* navigation-links scenario and its page
    filt,      \* filter-toggling scenario and its page
    core       \* core-elements scenario and its page

runVars == <<ci, onlySet, phase, queue, st, pc, attempt, ctx, failedAt, shots, traces, exitCode>>
vars == <<ci, onlySet, phase, queue, st, pc, attempt, ctx, failedAt, shots, traces, exitCode,
          perf, nav, filt, core>>

----------------------------------------------------------------------------
(* Bounds *)

\* Workers the host gives a run whose configuration leaves `workers` undefined.
HostWorkers == 2
\* Largest number of scenarios marked test.only that the inputs enumerate.
MaxOnly == 1

----------------------------------------------------------------------------
(* The describe block: the seven scenarios in declaration order *)

Declared == <<"core", "filter", "map", "perf", "venue", "nav", "mobile">>

Scenarios == {Declared[i] : i \in 1..Len(Declared)}

\* The awaited calls and expectations of each scenario body, in order: every
\* one of them can throw, and a throw ends the attempt.
Steps(s) ==
    CASE s = "core"   -> <<"goto", "headerVisible", "mapVisible", "filtersCount", "joinVisible">>
      [] s = "filter" -> <<"goto", "networkidle", "poolVisible", "fitnessVisible",
                           "familyVisible", "diningVisible", "waterparksVisible",
                           "clickPool", "wait", "readInitial", "clickFitness", "wait",
                           "readUpdated", "expectDiffer">>
      [] s = "map"    -> <<"goto", "containerVisible", "canvasAttached", "zoomCount",
                           "zoomInClick", "wait", "zoomOutClick", "boundingBox">>
      [] s = "perf"   -> <<"goto", "expectDom", "canvasAttached", "expectRender",
                           "evaluate", "expectTtfb">>
      [] s = "venue"  -> <<"goto", "networkidle", "loadingCount", "loadingHidden",
                           "showCount", "showText", "imagesCount">>
      [] s = "nav"    -> <<"goto", "poolAttached", "poolHref", "gymAttached", "gymHref",
                           "familyAttached", "familyHref", "diningAttached", "diningHref",
                           "joinVisible", "joinHref">>
      [] s = "mobile" -> <<"newContext", "newPage", "goto", "networkidle", "menuToggle",
                           "mapVisible", "overflow", "close">>

\* pc value of a body that ran to its end.
End(s) == Len(Steps(s)) + 1

\* The step after step k; `cond` is the outcome of the condition an if tests.
NextPc(s, k, cond) ==
    CASE s = "map" /\ k = 4   -> IF cond THEN 5 ELSE 8
      [] s = "map" /\ k = 7   -> End(s)
      [] s = "venue" /\ k = 3 -> IF cond THEN 4 ELSE 5
      [] s = "venue" /\ k = 5 -> IF cond THEN 6 ELSE 7
      [] OTHER                -> k + 1

\* Scenarios that take the runner's `page` fixture; the mobile one takes `browser`.
UsesPageFixture(s) == s # "mobile"

----------------------------------------------------------------------------
(* playwright.config.ts *)

ForbidOnlyAlways == TRUE

ForbidOnly == ci

RetriesTwo == IF ci THEN 2 ELSE 0

Retries == IF ci THEN 1 ELSE 0

WorkersUnset == HostWorkers

Workers == IF ci THEN 1 ELSE HostWorkers

\* trace: "on-first-retry"; `retry` is the 0-based retry index of the attempt.
TraceOnAllRetries(retry) == retry >= 0

TraceOn(retry) == retry = 1

\* screenshot: "only-on-failure"
ScreenshotOn(failed) == failed

----------------------------------------------------------------------------
(* The run *)

Busy == {s \in Scenarios : st[s] \in {"running", "teardown"}}

Selected == IF onlySet = {} THEN Scenarios ELSE onlySet

RECURSIVE Filter(_, _)
Filter(seq, S) ==
    IF seq = <<>> THEN <<>>
    ELSE IF Head(seq) \in S THEN <<Head(seq)>> \o Filter(Tail(seq), S)
         ELSE Filter(Tail(seq), S)

LastFailed(s) == attempt[s] \in failedAt[s]

RunInit ==
    /\ ci \in BOOLEAN
    /\ onlySet \in {S \in SUBSET Scenarios : Cardinality(S) <= MaxOnly}
    /\ phase = "load"
    /\ queue = <<>>
    /\ st = [s \in Scenarios |-> "declared"]
    /\ pc = [s \in Scenarios |-> 0]
    /\ attempt = [s \in Scenarios |-> 0]
    /\ ctx = [s \in Scenarios |-> "none"]
    /\ failedAt = [s \in Scenarios |-> {}]
    /\ shots = [s \in Scenarios |-> {}]
    /\ traces = [s \in Scenarios |-> {}]
    /\ exitCode = -1

\* The runner loads the file: a test.only under forbidOnly ends the run at once.
LoadForbidden ==
    /\ phase = "load"
    /\ ForbidOnly /\ onlySet # {}
    /\ phase' = "done"
    /\ exitCode' = 1
    /\ UNCHANGED <<ci, onlySet, queue, st, pc, attempt, ctx, failedAt, shots, traces>>

Load ==
    /\ phase = "load"
    /\ ~(ForbidOnly /\ onlySet # {})
    /\ phase' = "run"
    /\ queue' = Filter(Declared, Selected)
    /\ st' = [s \in Scenarios |-> IF s \in Selected THEN "queued" ELSE "skipped"]
    /\ UNCHANGED <<ci, onlySet, pc, attempt, ctx, failedAt, shots, traces, exitCode>>

\* A free worker takes the job at the head of the queue and starts the body at
\* its first step.
StartAttempt ==
    /\ phase = "run"
    /\ queue # <<>>
    /\ Cardinality(Busy) < Workers
    /\ LET s == Head(queue) IN
        /\ queue' = Tail(queue)
        /\ st' = [st EXCEPT ![s] = "running"]
        /\ pc' = [pc EXCEPT ![s] = 1]
        /\ attempt' = [attempt EXCEPT ![s] = @ + 1]
        /\ ctx' = [ctx EXCEPT ![s] = IF UsesPageFixture(s) THEN "open" ELSE "none"]
        /\ traces' = [traces EXCEPT ![s] = IF TraceOn(attempt[s]) THEN @ \cup {attempt[s] + 1}
                                                               ELSE @]
    /\ UNCHANGED <<ci, onlySet, phase, failedAt, shots, exitCode>>

\* The effect of a completed step on the scenario's own browser context.
CtxAfter(s, k, c) ==
    IF s = "mobile" /\ Steps(s)[k] = "newContext" THEN "open"
    ELSE IF s = "mobile" /\ Steps(s)[k] = "close" THEN "closedByScenario"
    ELSE c

\* The current step completes.
StepOk(s) ==
    /\ st[s] = "running"
    /\ \E cond \in BOOLEAN :
        LET n == NextPc(s, pc[s], cond) IN
        /\ pc' = [pc EXCEPT ![s] = n]
        /\ st' = [st EXCEPT ![s] = IF n = End(s) THEN "teardown" ELSE "running"]
    /\ ctx' = [ctx EXCEPT ![s] = CtxAfter(s, pc[s], @)]
    /\ UNCHANGED <<ci, onlySet, phase, queue, attempt, failedAt, shots, traces, exitCode>>

\* The current step throws (assertion mismatch, timeout, navigation error):
\* the body is abandoned there and nothing after the step runs.
StepThrows(s) ==
    /\ st[s] = "running"
    /\ st' = [st EXCEPT ![s] = "teardown"]
    /\ pc' = [pc EXCEPT ![s] = 0]
    /\ failedAt' = [failedAt EXCEPT ![s] = @ \cup {attempt[s]}]
    /\ UNCHANGED <<ci, onlySet, phase, queue, attempt, ctx, shots, traces, exitCode>>

\* The queue after an attempt of s ended: a retry goes to the front, and the
\* describe block is in the default mode, so a failure leaves the other jobs alone.
QueueAfterSerial(s, q, retry, failed) ==
    IF retry THEN <<s>> \o q ELSE IF failed THEN <<>> ELSE q

QueueAfter(s, q, retry, failed) == IF retry THEN <<s>> \o q ELSE q

\* The worker ends the attempt: artifacts, fixtures and browser are torn down,
\* and a failed attempt is queued again while retries remain.
Teardown(s) ==
    /\ st[s] = "teardown"
    /\ shots' = [shots EXCEPT ![s] = IF ScreenshotOn(LastFailed(s)) THEN @ \cup {attempt[s]}
                                                                   ELSE @]
    /\ ctx' = [ctx EXCEPT ![s] = IF @ = "open" THEN "closedByRunner" ELSE @]
    /\ pc' = [pc EXCEPT ![s] = 0]
    /\ IF LastFailed(s) /\ attempt[s] <= Retries
       THEN /\ st' = [st EXCEPT ![s] = "queued"]
            /\ queue' = QueueAfter(s, queue, TRUE, TRUE)
       ELSE /\ st' = [st EXCEPT ![s] = IF LastFailed(s) THEN "failed" ELSE "passed"]
            /\ queue' = QueueAfter(s, queue, FALSE, LastFailed(s))
    /\ UNCHANGED <<ci, onlySet, phase, attempt, failedAt, traces, exitCode>>

Finish ==
    /\ phase = "run"
    /\ queue = <<>>
    /\ Busy = {}
    /\ phase' = "done"
    /\ exitCode' = IF \E s \in Scenarios : st[s] = "failed" THEN 1 ELSE 0
    /\ UNCHANGED <<ci, onlySet, queue, st, pc, attempt, ctx, failedAt, shots, traces>>

\* Values of the single-scenario variables while the run is modelled.
Idle == [pc |-> "idle"]

scenVars == <<perf, nav, filt, core>>

Init ==
    /\ RunInit
    /\ perf = Idle /\ nav = Idle /\ filt = Idle /\ core = Idle

Next ==
    \/ LoadForbidden /\ UNCHANGED scenVars
    \/ Load /\ UNCHANGED scenVars
    \/ StartAttempt /\ UNCHANGED scenVars
    \/ \E s \in Scenarios : StepOk(s) /\ UNCHANGED scenVars
    \/ \E s \in Scenarios : StepThrows(s) /\ UNCHANGED scenVars
    \/ \E s \in Scenarios : Teardown(s) /\ UNCHANGED scenVars
    \/ Finish /\ UNCHANGED scenVars

Spec == Init /\ [][Next]_vars

----------------------------------------------------------------------------
(* Properties of the run *)

\* C1: every attempt of the mobile-viewport scenario that created a browser
\* context has closed it itself by the time its body ends, whether the body
\* ran to its end or threw at any step.
C1_ContextClosedByScenario ==
    (st["mobile"] = "teardown" /\ ctx["mobile"] # "none")
        => ctx["mobile"] = "closedByScenario"

\* C2: a step that throws fails the attempt; a scenario is attempted at most
\* twice with the CI flag and at most once without it; a further attempt
\* follows only a failed one, and every attempt starts at the first step.
C2_RetryWholeScenario ==
    [][\A s \in Scenarios :
          /\ attempt'[s] <= (IF ci THEN 2 ELSE 1)
          /\ (attempt'[s] # attempt[s] =>
                /\ attempt'[s] = attempt[s] + 1
                /\ pc'[s] = 1
                /\ (attempt[s] >= 1 => LastFailed(s)))
          /\ (failedAt'[s] # failedAt[s] => st'[s] = "teardown" /\ pc'[s] # End(s))
          /\ (st'[s] = "passed" => attempt'[s] \notin failedAt'[s])
          /\ (st'[s] = "running" /\ pc'[s] # pc[s] /\ attempt'[s] = attempt[s]
                => pc'[s] > pc[s])]_vars

C2_Witness ==
    ci /\ \E s \in Scenarios : attempt[s] = 2 /\ st[s] = "running" /\ pc[s] = 1

\* C3: the run exits non-zero exactly when some scenario failed its last
\* allowed attempt, or a scenario is marked only while the CI flag is set.
C3_ExitCode ==
    phase = "done" =>
        /\ exitCode \in {0, 1}
        /\ exitCode = 1 <=>
              \/ \E s \in Scenarios : attempt[s] = Retries + 1 /\ LastFailed(s)
              \/ ci /\ onlySet # {}

C3_Witness ==
    /\ phase = "done" /\ exitCode = 0
    /\ \E s \in Scenarios : failedAt[s] = {1} /\ st[s] = "passed"

C5_OneSessionInCI ==
    ci => /\ Cardinality(Busy) <= 1
          /\ Cardinality({s \in Scenarios : ctx[s] = "open"}) <= 1

C5_Witness ==
    /\ ci /\ st["nav"] = "failed" /\ attempt["mobile"] = 2
    /\ st["mobile"] = "running" /\ ctx["mobile"] = "open"

\* Without the CI flag every worker the host gives can be executing a scenario.
C5_LocalConcurrency == ~ci /\ Cardinality(Busy) = HostWorkers

\* C6: a screenshot exists only for an attempt that failed, a trace only for
\* the second attempt (the first retry), and a run without the CI flag has
\* no trace.
C6_ArtifactsOnlyForFailures ==
    \A s \in Scenarios :
        /\ shots[s] \subseteq failedAt[s]
        /\ traces[s] \subseteq {2}
        /\ (~ci => traces[s] = {})

C6_Witness ==
    \E s \in Scenarios : st[s] = "passed" /\ shots[s] = {1} /\ traces[s] = {2}

----------------------------------------------------------------------------
(* Scenario "should load within acceptable performance thresholds" *)

\* Thresholds of the scenario, in milliseconds.
DomThreshold == 8000
AttachTimeout == 15000
RenderThreshold == 15000
TtfbThreshold == 2000

\* No time: the event never happens.
Never == 0 - 1

\* The page load as the browser times it, in milliseconds from navigation
\* start, and the time the harness spends between Date.now() and the start of
\* the navigation.
Lags == {0, 500}
RequestStarts == {0, 1000}
ResponseDelays == {500, 1999, 2000}
DomDelays == {100, 5000, 7000}
AttachTimes == {3000, 14000, 14999, 15000, 25000, Never}

Max(a, b) == IF a >= b THEN a ELSE b

\* expect(x).toBeLessThan(y)
ToBeLessThanOrEqual(x, y) == x <= y

ToBeLessThan(x, y) == x < y

\* performanceMetrics.ttfb
Ttfb(p) == p.responseStart - p.requestStart

PerfInit ==
    \E reachable \in BOOLEAN, lag \in Lags, rq \in RequestStarts, rd \in ResponseDelays,
       dd \in DomDelays, at \in AttachTimes :
        /\ at = Never \/ at >= rq + rd
        /\ perf = [pc |-> "goto", reachable |-> reachable, lag |-> lag,
                   requestStart |-> rq, responseStart |-> rq + rd,
                   domContentLoaded |-> rq + rd + dd, attachAt |-> at,
                   now |-> 0, domLoadTime |-> Never, mapRenderTime |-> Never,
                   ttfb |-> Never]

\* const startTime = Date.now(); await page.goto("/map", {waitUntil: "domcontentloaded"});
\* const domLoadTime = Date.now() - startTime
PerfGoto ==
    /\ perf.pc = "goto"
    /\ IF perf.reachable
       THEN LET t == perf.lag + perf.domContentLoaded IN
            perf' = [perf EXCEPT !.pc = "expectDom", !.now = t, !.domLoadTime = t]
       ELSE perf' = [perf EXCEPT !.pc = "failed"]

\* expect(domLoadTime).toBeLessThan(8000)
PerfExpectDom ==
    /\ perf.pc = "expectDom"
    /\ perf' = [perf EXCEPT !.pc = IF ToBeLessThan(perf.domLoadTime, DomThreshold)
                                   THEN "attached" ELSE "failed"]

\* await expect(mapCanvas).toBeAttached({timeout: 15000});
\* const mapRenderTime = Date.now() - startTime
PerfAttached ==
    /\ perf.pc = "attached"
    /\ LET at == perf.lag + perf.attachAt IN
       IF perf.attachAt # Never /\ at <= perf.now + AttachTimeout
       THEN perf' = [perf EXCEPT !.pc = "expectRender", !.now = Max(perf.now, at),
                                 !.mapRenderTime = Max(perf.now, at)]
       ELSE perf' = [perf EXCEPT !.pc = "failed", !.now = perf.now + AttachTimeout]

\* expect(mapRenderTime).toBeLessThan(15000)
PerfExpectRender ==
    /\ perf.pc = "expectRender"
    /\ perf' = [perf EXCEPT !.pc = IF ToBeLessThan(perf.mapRenderTime, RenderThreshold)
                                   THEN "evaluate" ELSE "failed"]

\* const performanceMetrics = await page.evaluate(...)
PerfEvaluate ==
    /\ perf.pc = "evaluate"
    /\ perf' = [perf EXCEPT !.pc = "expectTtfb", !.ttfb = Ttfb(perf)]

\* expect(performanceMetrics.ttfb).toBeLessThan(2000)
PerfExpectTtfb ==
    /\ perf.pc = "expectTtfb"
    /\ perf' = [perf EXCEPT !.pc = IF ToBeLessThan(perf.ttfb, TtfbThreshold)
                                   THEN "passed" ELSE "failed"]

\* The run is not modelled while a single scenario is.
RunIdle ==
    /\ ci = FALSE /\ onlySet = {} /\ phase = "idle" /\ queue = <<>>
    /\ st = [s \in Scenarios |-> "declared"]
    /\ pc = [s \in Scenarios |-> 0]
    /\ attempt = [s \in Scenarios |-> 0]
    /\ ctx = [s \in Scenarios |-> "none"]
    /\ failedAt = [s \in Scenarios |-> {}]
    /\ shots = [s \in Scenarios |-> {}]
    /\ traces = [s \in Scenarios |-> {}]
    /\ exitCode = -1

InitPerf == RunIdle /\ PerfInit /\ nav = Idle /\ filt = Idle /\ core = Idle

NextPerf ==
    \/ PerfGoto /\ UNCHANGED <<runVars, nav, filt, core>>
    \/ PerfExpectDom /\ UNCHANGED <<runVars, nav, filt, core>>
    \/ PerfAttached /\ UNCHANGED <<runVars, nav, filt, core>>
    \/ PerfExpectRender /\ UNCHANGED <<runVars, nav, filt, core>>
    \/ PerfEvaluate /\ UNCHANGED <<runVars, nav, filt, core>>
    \/ PerfExpectTtfb /\ UNCHANGED <<runVars, nav, filt, core>>

SpecPerf == InitPerf /\ [][NextPerf]_vars

\* C7 as stated: the scenario passes only if DOM-content-loaded, map attach
\* and first byte, each measured from navigation start, are under 8000ms,
\* 15000ms and 2000ms.
C7_AllFromNavigationStart ==
    perf.pc = "passed" =>
        /\ perf.domContentLoaded < DomThreshold
        /\ perf.attachAt # Never /\ perf.attachAt < RenderThreshold
        /\ perf.responseStart < TtfbThreshold

\* C7 as amended: the scenario passes only if the wall-clock time from just
\* before the navigation to DOM-content-loaded is under 8000ms and to the map
\* canvas being attached is under 15000ms (so both are under their bounds from
\* navigation start too), and responseStart - requestStart is under 2000ms.
C7_PerformanceThresholds ==
    perf.pc = "passed" =>
        /\ perf.lag + perf.domContentLoaded < DomThreshold
        /\ perf.domContentLoaded < DomThreshold
        /\ perf.attachAt # Never
        /\ Max(perf.lag + perf.domContentLoaded, perf.lag + perf.attachAt) < RenderThreshold
        /\ perf.attachAt < RenderThreshold
        /\ perf.responseStart - perf.requestStart < TtfbThreshold

C7_Witness ==
    /\ perf.pc = "passed"
    /\ perf.responseStart >= TtfbThreshold
    /\ perf.ttfb = 1999

----------------------------------------------------------------------------
(* Scenario "should have correct navigation links in header" *)

\* Largest number of links of the page that match one accessible-name pattern.
MaxLinks == 2

\* expectedNavItems, by index: /pool.*beach/i, /gym|fitness/i, /family/i, /dining/i
NavItems == 1..4

\* The href attribute of a link: absent (getAttribute returns null) or a string,
\* kept as its sequence of characters.
Hrefs == {[present |-> FALSE, val |-> <<>>],
          [present |-> TRUE, val |-> <<>>],
          [present |-> TRUE, val |-> <<"/", "p">>],
          [present |-> TRUE, val |-> <<"h", ":", "/">>]}

\* What getByRole("link", {name}) finds on the page: the number of matching
\* links and the first of them in document order, which is all .first() keeps.
Matches == {[count |-> 0, href |-> [present |-> FALSE, val |-> <<>>], visible |-> FALSE]}
           \cup [count : 1..MaxLinks, href : Hrefs, visible : BOOLEAN]

Unknown == [count |-> -1]

\* expect(href).toBeTruthy()
IsPresent(h) == h.present

ToBeTruthy(h) == h.present /\ h.val # <<>>

\* expect(href).toMatch(/^\//); a null href makes the matcher throw.
ToMatchLeadingSlash(h) == h.present /\ Len(h.val) >= 1 /\ h.val[1] = "/"

NavInit ==
    \E reachable \in BOOLEAN :
        nav = [pc |-> "goto", item |-> 1, reachable |-> reachable,
               links |-> [i \in NavItems |-> Unknown], join |-> Unknown]

\* await page.goto("/map")
NavGoto ==
    /\ nav.pc = "goto"
    /\ nav' = [nav EXCEPT !.pc = IF nav.reachable THEN "attached" ELSE "failed"]

\* const link = page.getByRole("link", {name}).first(); await expect(link).toBeAttached()
NavAttached ==
    /\ nav.pc = "attached"
    /\ \E m \in Matches :
        nav' = [nav EXCEPT !.links[nav.item] = m,
                           !.pc = IF m.count >= 1 THEN "href" ELSE "failed"]

\* const href = await link.getAttribute("href");
\* expect(href).toBeTruthy(); expect(href).toMatch(/^\//)
NavHref ==
    /\ nav.pc = "href"
    /\ LET h == nav.links[nav.item].href IN
       IF ToBeTruthy(h) /\ ToMatchLeadingSlash(h)
       THEN IF nav.item < 4
            THEN nav' = [nav EXCEPT !.item = nav.item + 1, !.pc = "attached"]
            ELSE nav' = [nav EXCEPT !.pc = "joinVisible"]
       ELSE nav' = [nav EXCEPT !.pc = "failed"]

\* const joinLink = page.getByRole("link", {name: /join now/i}).first();
\* await expect(joinLink).toBeVisible()
NavJoinVisible ==
    /\ nav.pc = "joinVisible"
    /\ \E m \in Matches :
        nav' = [nav EXCEPT !.join = m,
                           !.pc = IF m.count >= 1 /\ m.visible THEN "joinHref" ELSE "failed"]

\* const joinHref = await joinLink.getAttribute("href"); expect(joinHref).toBeTruthy()
NavJoinHref ==
    /\ nav.pc = "joinHref"
    /\ nav' = [nav EXCEPT !.pc = IF ToBeTruthy(nav.join.href) THEN "passed" ELSE "failed"]

InitNav == RunIdle /\ NavInit /\ perf = Idle /\ filt = Idle /\ core = Idle

NextNav ==
    \/ NavGoto /\ UNCHANGED <<runVars, perf, filt, core>>
    \/ NavAttached /\ UNCHANGED <<runVars, perf, filt, core>>
    \/ NavHref /\ UNCHANGED <<runVars, perf, filt, core>>
    \/ NavJoinVisible /\ UNCHANGED <<runVars, perf, filt, core>>
    \/ NavJoinHref /\ UNCHANGED <<runVars, perf, filt, core>>

SpecNav == InitNav /\ [][NextNav]_vars

\* C8 as stated: the scenario passes only if every expected nav item resolves
\* to exactly one link, whose href is non-empty and starts with "/", and the
\* join-now link is visible with a non-empty href.
C8_ExactlyOneLink ==
    nav.pc = "passed" =>
        /\ \A i \in NavItems :
              /\ nav.links[i].count = 1
              /\ nav.links[i].href.present /\ nav.links[i].href.val # <<>>
              /\ nav.links[i].href.val[1] = "/"
        /\ nav.join.count >= 1 /\ nav.join.visible
        /\ nav.join.href.present /\ nav.join.href.val # <<>>

\* C8 as amended: the scenario passes only if every expected nav item resolves
\* to at least one link and the first of them has a non-empty href starting
\* with "/", and the first join-now link is visible with a non-empty href.
C8_FirstLinkRootRelative ==
    nav.pc = "passed" =>
        /\ \A i \in NavItems :
              /\ nav.links[i].count >= 1
              /\ nav.links[i].href.present /\ nav.links[i].href.val # <<>>
              /\ nav.links[i].href.val[1] = "/"
        /\ nav.join.count >= 1 /\ nav.join.visible
        /\ nav.join.href.present /\ nav.join.href.val # <<>>

C8_Witness ==
    /\ nav.pc = "passed"
    /\ \E i \in NavItems : nav.links[i].count > 1

----------------------------------------------------------------------------
(* Scenario "should toggle category filters and update venue display" *)

\* page.waitForTimeout(1000)
WaitMs == 1000

\* const categories = [...]
Categories == <<"Pool & beach", "Fitness", "Family activities", "Dining", "Waterparks">>

\* The text of the first heading that matches /\d+.*venue/i; NoHeading when no
\* element matches.
NoHeading == ""
Texts == {"5 venues", "12 venues", NoHeading}

\* Milliseconds the page takes to show the venue count of a filter after the
\* click that activated it.
UpdateDelays == {200, 1500}

Unread == "unread"
NoUpdate == [at |-> Never, text |-> NoHeading]

\* The heading the page displays at time t: an update that is due has replaced it.
Displayed(f, t) ==
    IF f.pending.at # Never /\ f.pending.at <= t THEN f.pending.text ELSE f.heading

\* The page after time passed to t.
Settle(f, t) ==
    [f EXCEPT !.now = t,
              !.heading = Displayed(f, t),
              !.pending = IF f.pending.at # Never /\ f.pending.at <= t THEN NoUpdate ELSE @]

FilterInit ==
    \E reachable \in BOOLEAN, t0 \in Texts, tp \in Texts, tf \in Texts,
       dp \in UpdateDelays, df \in UpdateDelays :
        filt = [pc |-> "goto", reachable |-> reachable, cat |-> 1,
                heading |-> t0, poolText |-> tp, fitnessText |-> tf,
                poolDelay |-> dp, fitnessDelay |-> df,
                pending |-> NoUpdate, now |-> 0,
                initialText |-> Unread, updatedText |-> Unread]

\* await page.goto("/map")
FilterGoto ==
    /\ filt.pc = "goto"
    /\ filt' = [filt EXCEPT !.pc = IF filt.reachable THEN "networkidle" ELSE "failed"]

\* await page.waitForLoadState("networkidle")
FilterNetworkIdle ==
    /\ filt.pc = "networkidle"
    /\ \E idle \in BOOLEAN :
        filt' = [filt EXCEPT !.pc = IF idle THEN "visible" ELSE "failed"]

\* for (const category of categories) await expect(filterBtn).toBeVisible({timeout: 10000})
FilterVisible ==
    /\ filt.pc = "visible"
    /\ \E visible \in BOOLEAN :
        IF ~visible THEN filt' = [filt EXCEPT !.pc = "failed"]
        ELSE IF filt.cat < Len(Categories) THEN filt' = [filt EXCEPT !.cat = filt.cat + 1]
        ELSE filt' = [filt EXCEPT !.pc = "clickPool"]

\* await poolFilter.click(): the page starts to fetch the pool venues; the
\* latest filter activated is the one whose count the page will show.
FilterClickPool ==
    /\ filt.pc = "clickPool"
    /\ filt' = [filt EXCEPT !.pc = "waitPool",
                            !.pending = [at |-> filt.now + filt.poolDelay,
                                         text |-> filt.poolText]]

\* await page.waitForTimeout(1000)
FilterWaitPool ==
    /\ filt.pc = "waitPool"
    /\ filt' = [Settle(filt, filt.now + WaitMs) EXCEPT !.pc = "readInitial"]

\* locator.textContent(): waits for a matching element, throws when none comes.
ReadHeading(f) ==
    IF f.heading = NoHeading /\ f.pending.at # Never THEN Settle(f, f.pending.at) ELSE f

\* const initialText = await venueHeading.textContent()
FilterReadInitial ==
    /\ filt.pc = "readInitial"
    /\ LET f == ReadHeading(filt) IN
       filt' = IF f.heading = NoHeading THEN [f EXCEPT !.pc = "failed"]
               ELSE [f EXCEPT !.pc = "clickFitness", !.initialText = f.heading]

\* await fitnessFilter.click()
FilterClickFitness ==
    /\ filt.pc = "clickFitness"
    /\ filt' = [filt EXCEPT !.pc = "waitFitness",
                            !.pending = [at |-> filt.now + filt.fitnessDelay,
                                         text |-> filt.fitnessText]]

\* await page.waitForTimeout(1000)
FilterWaitFitness ==
    /\ filt.pc = "waitFitness"
    /\ filt' = [Settle(filt, filt.now + WaitMs) EXCEPT !.pc = "readUpdated"]

\* const updatedText = await venueHeading.textContent()
FilterReadUpdated ==
    /\ filt.pc = "readUpdated"
    /\ LET f == ReadHeading(filt) IN
       filt' = IF f.heading = NoHeading THEN [f EXCEPT !.pc = "failed"]
               ELSE [f EXCEPT !.pc = "expectDiffer", !.updatedText = f.heading]

\* expect(updatedText).not.toEqual(initialText)
FilterExpectDiffer ==
    /\ filt.pc = "expectDiffer"
    /\ filt' = [filt EXCEPT !.pc = IF filt.updatedText # filt.initialText
                                   THEN "passed" ELSE "failed"]

InitFilter == RunIdle /\ FilterInit /\ perf = Idle /\ nav = Idle /\ core = Idle

NextFilter ==
    \/ FilterGoto /\ UNCHANGED <<runVars, perf, nav, core>>
    \/ FilterNetworkIdle /\ UNCHANGED <<runVars, perf, nav, core>>
    \/ FilterVisible /\ UNCHANGED <<runVars, perf, nav, core>>
    \/ FilterClickPool /\ UNCHANGED <<runVars, perf, nav, core>>
    \/ FilterWaitPool /\ UNCHANGED <<runVars, perf, nav, core>>
    \/ FilterReadInitial /\ UNCHANGED <<runVars, perf, nav, core>>
    \/ FilterClickFitness /\ UNCHANGED <<runVars, perf, nav, core>>
    \/ FilterWaitFitness /\ UNCHANGED <<runVars, perf, nav, core>>
    \/ FilterReadUpdated /\ UNCHANGED <<runVars, perf, nav, core>>
    \/ FilterExpectDiffer /\ UNCHANGED <<runVars, perf, nav, core>>

SpecFilter == InitFilter /\ [][NextFilter]_vars

\* C9: the two texts the scenario compares are the count the page shows for
\* "Pool & beach" and the count it shows for "Fitness", whatever the delay of
\* the page's update, so the scenario passes exactly when those two differ.
C9_ComparesSettledTexts ==
    /\ filt.updatedText # Unread =>
          filt.initialText = filt.poolText /\ filt.updatedText = filt.fitnessText
    /\ filt.pc = "passed" => filt.poolText # filt.fitnessText
    /\ (filt.pc = "failed" /\ filt.updatedText # Unread) => filt.poolText = filt.fitnessText

\* The filter scenario passes although both filters settle to the same text.
C9_PassesOnEqualTexts ==
    /\ filt.pc = "passed" /\ filt.poolText = filt.fitnessText
    /\ filt.poolText # NoHeading

\* The filter scenario fails although the two filters settle to different texts.
C9_FailsOnDifferentTexts ==
    /\ filt.pc = "failed" /\ filt.updatedText # Unread
    /\ filt.poolText # filt.fitnessText

----------------------------------------------------------------------------
(* Scenario "should load page with all core UI elements visible" *)

\* expect(...).toBeVisible() without a timeout waits the default 5000ms.
ExpectTimeout == 5000
MapTimeout == 15000

\* Milliseconds after page.goto returned at which an element becomes visible
\* (or, for the filter control, gets its state).
ElementTimes == {0, 3000, 6000, 12000, 20000, Never}

\* A category button of the page: absent; hidden as ARIA defines it (not
\* matched by getByRole); matched by getByRole but with an empty box (not
\* visible); or visible.
FilterKinds == {"absent", "ariaHidden", "emptyBox", "visible"}

\* await expect(locator).toBeVisible({timeout}) called at time `now`
BecomesVisible(at, now, timeout) == at # Never /\ at <= now + timeout

\* await filters.count() at time `now`: the matching elements there are now.
FiltersCount(c, now) ==
    IF c.filterKind \in {"emptyBox", "visible"} /\ c.filterAt # Never /\ c.filterAt <= now
    THEN 1 ELSE 0

CoreInit ==
    \E reachable \in BOOLEAN, h \in ElementTimes, m \in ElementTimes,
       fk \in FilterKinds, fa \in ElementTimes, j \in ElementTimes :
        /\ fk = "absent" <=> fa = Never
        /\ core = [pc |-> "goto", reachable |-> reachable, headerAt |-> h, mapAt |-> m,
                   filterKind |-> fk, filterAt |-> fa, joinAt |-> j,
                   now |-> 0, countedAt |-> Never, failedStep |-> "none"]

\* await page.goto("/map")
CoreGoto ==
    /\ core.pc = "goto"
    /\ core' = IF core.reachable THEN [core EXCEPT !.pc = "header"]
               ELSE [core EXCEPT !.pc = "failed", !.failedStep = "goto"]

\* await expect(header).toBeVisible()
CoreHeader ==
    /\ core.pc = "header"
    /\ core' = IF BecomesVisible(core.headerAt, core.now, ExpectTimeout)
               THEN [core EXCEPT !.pc = "map", !.now = Max(core.now, core.headerAt)]
               ELSE [core EXCEPT !.pc = "failed", !.failedStep = "header"]

\* await expect(mapCanvas.first()).toBeVisible({timeout: 15000})
CoreMap ==
    /\ core.pc = "map"
    /\ core' = IF BecomesVisible(core.mapAt, core.now, MapTimeout)
               THEN [core EXCEPT !.pc = "filters", !.now = Max(core.now, core.mapAt)]
               ELSE [core EXCEPT !.pc = "failed", !.failedStep = "map"]

\* expect(await filters.count()).toBeGreaterThanOrEqual(1)
CoreFilters ==
    /\ core.pc = "filters"
    /\ core' = IF FiltersCount(core, core.now) >= 1
               THEN [core EXCEPT !.pc = "join", !.countedAt = core.now]
               ELSE [core EXCEPT !.pc = "failed", !.countedAt = core.now,
                                 !.failedStep = "filters"]

\* await expect(joinCTA).toBeVisible()
CoreJoin ==
    /\ core.pc = "join"
    /\ core' = IF BecomesVisible(core.joinAt, core.now, ExpectTimeout)
               THEN [core EXCEPT !.pc = "passed", !.now = Max(core.now, core.joinAt)]
               ELSE [core EXCEPT !.pc = "failed", !.failedStep = "join"]

InitCore == RunIdle /\ CoreInit /\ perf = Idle /\ nav = Idle /\ filt = Idle

NextCore ==
    \/ CoreGoto /\ UNCHANGED <<runVars, perf, nav, filt>>
    \/ CoreHeader /\ UNCHANGED <<runVars, perf, nav, filt>>
    \/ CoreMap /\ UNCHANGED <<runVars, perf, nav, filt>>
    \/ CoreFilters /\ UNCHANGED <<runVars, perf, nav, filt>>
    \/ CoreJoin /\ UNCHANGED <<runVars, perf, nav, filt>>

SpecCore == InitCore /\ [][NextCore]_vars

\* C10: the scenario passes only if the header, the map surface, a category
\* filter control and the join link are all visible; a filter control that is
\* on the page without being visible does not let it pass, and one that becomes
\* visible within the default timeout after the count does not make it fail.
C10_CoreElementsVisible ==
    /\ core.pc = "passed" =>
          /\ core.headerAt # Never /\ core.mapAt # Never /\ core.joinAt # Never
          /\ core.filterKind = "visible"
    /\ (core.pc = "failed" /\ core.failedStep = "filters") =>
          ~(core.filterKind = "visible" /\ core.filterAt <= core.countedAt + ExpectTimeout)

\* The scenario passes with a filter control that has an empty box.
C10_PassesWithInvisibleFilter == core.pc = "passed" /\ core.filterKind = "emptyBox"

\* The scenario fails on a filter control that is visible 3s after the count.
C10_FailsOnLateFilter ==
    /\ core.pc = "failed" /\ core.failedStep = "filters"
    /\ core.filterKind = "visible" /\ core.filterAt <= core.countedAt + ExpectTimeout

====
